---- MODULE Spec2Model ----
(***************************************************************************)
(* Model of the NFT command-line client: the transfer-batch compiler,      *)
(* operator-list resolution, contract origination, the balance query and   *)
(* the bootstrap/readiness orchestrator.                                   *)
(*                                                                         *)
(* Strings that the code splits, trims or parses are sequences of          *)
(* one-character strings, so that split(','), trim() and new BigNumber()   *)
(* are computed as the code computes them.                                 *)
(***************************************************************************)
EXTENDS Integers, Sequences, FiniteSets, TLC

VARIABLES
    config,      \* the configuration store (a file shared by every invocation)
    batch,       \* the transfer batch accumulated by parseTransfers
    compiled,    \* history: the descriptors given to parseTransfers, in order
    pc,          \* per invocation: the await point the operation is suspended at
    cmd,         \* per invocation: the operation running (or last run)
    args,        \* per invocation: the arguments of the operation
    log,         \* per invocation: history of the calls made and lines logged
    failures,    \* per invocation: failed attempts counted by retry()
    outcome,     \* per invocation: how the returned promise settled
    cfgAtStart,  \* per invocation: history, the store when the operation began
    result,      \* per invocation: the value computed by the operation so far
    nContracts   \* number of contracts originated on the network so far

vars == <<config, batch, compiled, pc, cmd, args, log, failures, outcome,
          cfgAtStart, result, nContracts>>

----------------------------------------------------------------------------
(* Bounds of the model. *)

\* Number of descriptors given to parseTransfers in one command line.
MaxDescriptors == 3

\* Number of operator descriptors in one updateOperators call (add + remove).
MaxOperators == 2

\* Number of contracts the network originates in one behaviour.
MaxContracts == 2

----------------------------------------------------------------------------
(* Strings. *)

\* JavaScript's undefined, among values that are character sequences.
Undefined == <<"<undefined>">>

\* String.prototype.split(sep) for a one-character separator.
RECURSIVE SplitFrom(_, _, _, _)
SplitFrom(s, sep, i, cur) ==
    IF i > Len(s) THEN <<cur>>
    ELSE IF s[i] = sep THEN <<cur>> \o SplitFrom(s, sep, i + 1, <<>>)
    ELSE SplitFrom(s, sep, i + 1, Append(cur, s[i]))

Split(s, sep) == SplitFrom(s, sep, 1, <<>>)

\* String.prototype.trim(): strips white space at both ends.
RECURSIVE TrimLeft(_)
TrimLeft(s) ==
    IF s # <<>> /\ Head(s) = " " THEN TrimLeft(Tail(s)) ELSE s

RECURSIVE TrimRight(_)
TrimRight(s) ==
    IF s # <<>> /\ s[Len(s)] = " " THEN TrimRight(SubSeq(s, 1, Len(s) - 1)) ELSE s

Trim(s) == TrimRight(TrimLeft(s))

\* Array destructuring: a missing element is undefined.
Field(parts, i) == IF i <= Len(parts) THEN parts[i] ELSE Undefined

Digits == <<"0", "1", "2", "3", "4", "5", "6", "7", "8", "9">>

DigitValue(c) == (CHOOSE k \in 1..10 : Digits[k] = c) - 1

IsDigit(c) == \E k \in 1..10 : Digits[k] = c

RECURSIVE DecimalValue(_)
DecimalValue(s) ==
    IF s = <<>> THEN 0
    ELSE 10 * DecimalValue(SubSeq(s, 1, Len(s) - 1)) + DigitValue(s[Len(s)])

NaN == [isNaN |-> TRUE, value |-> 0]

\* new BigNumber(v) of bignumber.js with DEBUG off: white space around the
\* number is ignored, and anything that is not a number (undefined included)
\* gives NaN; nothing is thrown.
BigNumber(v) ==
    LET t == Trim(v) IN
    IF v # Undefined /\ t # <<>> /\ \A i \in 1..Len(t) : IsDigit(t[i])
    THEN [isNaN |-> FALSE, value |-> DecimalValue(t)]
    ELSE NaN

----------------------------------------------------------------------------
(* The transfer-batch compiler. *)

D_a_b_1 == <<"a", ",", "b", ",", "1">>
D_a_c_2 == <<"a", ",", "c", ",", "2">>
D_x_y_9 == <<"x", ",", "y", ",", "9">>
D_x_z_3 == <<"x", ",", "z", ",", "3">>
D_a_c_2_spaced == <<" ", "a", " ", ",", " ", "c", ",", "2", " ">>

\* The transfer descriptors a command line is drawn from.
TransferDescriptors ==
    {D_a_b_1, D_a_c_2, D_x_y_9, D_x_z_3, D_a_c_2_spaced}

\* description.split(',').map(p => p.trim())
Fields(description) ==
    LET parts == Split(description, ",") IN
    [i \in 1..Len(parts) |-> Trim(parts[i])]

\* The single-destination entry parseTransfers builds from a descriptor.
TransferOf(description) ==
    LET f == Fields(description) IN
    [from_ |-> Field(f, 1),
     txs   |-> << [to_      |-> Field(f, 2),
                   token_id |-> BigNumber(Field(f, 3)),
                   amount   |-> BigNumber(<<"1">>)] >>]

\* Index of the batch entry the merge test reads.
MergeIndex(b) == 1

\* Whether the new entry is merged into an entry of the batch.
Merges(b, tx) == Len(b) > 0 /\ b[MergeIndex(b)].from_ = tx.from_

\* The destinations of the merged entry. (Prepending instead would reverse
\* the order compiled.)
MergedTxsPrepend(old, new) == new \o old

\* (Keeping only the new destination would lose the ones compiled before.)
MergedTxsReplace(old, new) == new

MergedTxs(old, new) == old \o new

parseTransfers(description, b) ==
    LET tx == TransferOf(description) IN
    IF Merges(b, tx)
    THEN [b EXCEPT ![MergeIndex(b)].txs = MergedTxs(b[MergeIndex(b)].txs, tx.txs)]
    ELSE Append(b, tx)

\* One --batch option of the command line is compiled.
ParseTransfers ==
    /\ Len(compiled) < MaxDescriptors
    /\ \E d \in TransferDescriptors :
         /\ batch' = parseTransfers(d, batch)
         /\ compiled' = Append(compiled, d)
    /\ UNCHANGED <<config, pc, cmd, args, log, failures, outcome, cfgAtStart,
                   result, nContracts>>

----------------------------------------------------------------------------
(* The configuration store and alias resolution. *)

Networks == {"sandbox", "testnet"}

\* Values the store can hold under a key: config.get gives undefined for a
\* missing key, and a stored value is a string or something else (a number).
UndefinedValue == [type |-> "undefined", str |-> <<>>]

StringValue(s) == [type |-> "string", str |-> s]

NumberValue(s) == [type |-> "number", str |-> s]

\* JavaScript's !v
Falsy(v) ==
    \/ v.type = "undefined"
    \/ v.type = "string" /\ v.str = <<>>
    \/ v.type = "number" /\ BigNumber(v.str).value = 0

Bob == <<"b", "o", "b">>
Alice == <<"a", "l", "i", "c", "e">>
Zed == <<"z", "e", "d">>
Bad == <<"!", "!", "!", "b", "a", "d", "!", "!", "!">>
NftLiteral == <<"K", "T", "1", "n", "f", "t">>
OldInspector == <<"K", "T", "1", "o", "l", "d">>
ProviderUrl == <<"h", "t", "t", "p", ":", "/", "/", "n", "o", "d", "e">>

\* The address the network gives the n-th contract it originates.
ContractAddress(n) == <<"K", "T", "1", Digits[n + 1]>>

HasPrefix(s, pre) == Len(s) >= Len(pre) /\ SubSeq(s, 1, Len(pre)) = pre

\* A literal address: an implicit account or an originated contract.
IsAddress(tok) ==
    \/ HasPrefix(tok, <<"t", "z", "1">>)
    \/ HasPrefix(tok, <<"K", "T", "1">>)

\* A literal secret key.
IsSecretKey(tok) == HasPrefix(tok, <<"e", "d", "s", "k">>)

\* The address configured for an alias.
AliasAddress(alias) == <<"t", "z", "1">> \o alias

Ok(v) == [ok |-> TRUE, value |-> v, error |-> [cause |-> "none"]]

Fail(c) == [ok |-> FALSE, value |-> Undefined, error |-> [cause |-> c]]

\* resolveAlias2Address of config-aliases: a configured alias gives its
\* address, a literal address is returned unchanged, anything else fails.
resolveAlias2Address(tok, cfg) ==
    IF tok \in cfg.aliases THEN Ok(AliasAddress(tok))
    ELSE IF IsAddress(tok) THEN Ok(tok)
    ELSE Fail("unknown_alias")

\* resolveAlias2Signer of config-aliases: a configured alias or a literal
\* secret key gives a signer (named here by its public key hash).
resolveAlias2Signer(tok, cfg) ==
    IF tok \in cfg.aliases THEN Ok(AliasAddress(tok))
    ELSE IF IsSecretKey(tok) THEN Ok(<<"t", "z", "1">> \o tok)
    ELSE Fail("unknown_alias")

\* activeNetworkKey(config) of config-util, as the network it selects.
activeNetworkKey(cfg) == cfg.activeNetwork

\* config.get(inspectorKey(config))
InspectorOf(cfg) == cfg.inspector[activeNetworkKey(cfg)]

\* config.set(inspectorKey(config), address)
\* A set that writes the address under the key of every network.
SetInspectorEverywhere(cfg, address) ==
    [cfg EXCEPT !.inspector = [n \in Networks |-> StringValue(address)]]

\* A set that leaves a key alone once it holds a string.
SetInspectorOnce(cfg, address) ==
    IF InspectorOf(cfg).type = "string" THEN cfg
    ELSE [cfg EXCEPT !.inspector[activeNetworkKey(cfg)] = StringValue(address)]

SetInspector(cfg, address) ==
    [cfg EXCEPT !.inspector[activeNetworkKey(cfg)] = StringValue(address)]

\* A handle built without looking for the provider URL.
createToolkitFromSignerUnchecked(signer, cfg) ==
    Ok([signer |-> signer, rpc |-> cfg.providerUrl[activeNetworkKey(cfg)].str])

createToolkitFromSigner(signer, cfg) ==
    LET providerUrl == cfg.providerUrl[activeNetworkKey(cfg)] IN
    IF Falsy(providerUrl) THEN Fail("provider_url_not_configured")
    ELSE Ok([signer |-> signer, rpc |-> providerUrl.str])

createToolkit(address_or_alias, cfg) ==
    LET signer == resolveAlias2Signer(address_or_alias, cfg) IN
    IF signer.ok THEN createToolkitFromSigner(signer.value, cfg)
    ELSE Fail(signer.error.cause)

\* The stores a behaviour can start from.
Configs ==
    [activeNetwork : Networks,
     providerUrl   : [Networks -> {UndefinedValue, StringValue(ProviderUrl)}],
     inspector     : [Networks -> {UndefinedValue, StringValue(OldInspector),
                                    NumberValue(<<"4", "2">>)}],
     aliases       : {{Bob, Alice}, {Alice}}]

----------------------------------------------------------------------------
(* Invocations: each runs one operation at a time, suspended at its awaits. *)

Procs == {1, 2}

Pending == [status |-> "pending", error |-> [cause |-> "none"]]

Resolved == [status |-> "resolved", error |-> [cause |-> "none"]]

Rejected(error) == [status |-> "rejected", error |-> error]

NoArgs == [none |-> TRUE]

NoResult == [none |-> TRUE]

Ev(name, arg) == [ev |-> name, arg |-> arg]

\* How often an event of the given name is in a log.
RECURSIVE Count(_, _)
Count(lg, name) ==
    IF lg = <<>> THEN 0
    ELSE Count(Tail(lg), name) + (IF Head(lg).ev = name THEN 1 ELSE 0)

Has(lg, name) == \E i \in 1..Len(lg) : lg[i].ev = name

HasEv(lg, name, arg) == \E i \in 1..Len(lg) : lg[i] = Ev(name, arg)

\* The operations that originate a contract.
Originating == {"bootstrap", "mintNfts"}

Running(p) == pc[p] \notin {"idle", "done"}

\* A new operation starts once the previous one has settled.
CanStart(p) == ~Running(p)

\* Keeps the number of originated contracts within MaxContracts.
CanOriginate(p) ==
    nContracts + Cardinality({q \in Procs \ {p} :
                                 Running(q) /\ cmd[q] \in Originating})
        < MaxContracts

Init ==
    /\ config \in Configs
    /\ batch = <<>>
    /\ compiled = <<>>
    /\ pc = [p \in Procs |-> "idle"]
    /\ cmd = [p \in Procs |-> "none"]
    /\ args = [p \in Procs |-> NoArgs]
    /\ log = [p \in Procs |-> <<>>]
    /\ failures = [p \in Procs |-> 0]
    /\ outcome = [p \in Procs |-> Pending]
    /\ cfgAtStart = [p \in Procs |-> config]
    /\ result = [p \in Procs |-> NoResult]
    /\ nContracts = 0

\* The operation of invocation p moves on: to pc_ with log_, settled or not.
Step(p, pc_, log_, outcome_) ==
    /\ pc' = [pc EXCEPT ![p] = pc_]
    /\ log' = [log EXCEPT ![p] = log_]
    /\ outcome' = [outcome EXCEPT ![p] = outcome_]

\* An operation begins: its history starts afresh.
Begin(p, name, a, res) ==
    /\ cmd' = [cmd EXCEPT ![p] = name]
    /\ args' = [args EXCEPT ![p] = a]
    /\ failures' = [failures EXCEPT ![p] = 0]
    /\ cfgAtStart' = [cfgAtStart EXCEPT ![p] = config]
    /\ result' = [result EXCEPT ![p] = res]

----------------------------------------------------------------------------
(* The bootstrap/readiness orchestrator. *)

\* retries option given to retry().
Retries == 8

\* async-retry: after a failed attempt the operation is run again while fewer
\* than `retries` retries have been made, so at most retries + 1 attempts.
\* (A retry() that allows one retry more, and one that gives up after the
\* seventh failure.)
CanRetryOnceMore(failed) == failed <= Retries + 1

CanRetryFewer(failed) == failed < Retries - 1

CanRetry(failed) == failed <= Retries

\* Whether bootstrap starts the sandbox for the active network.
\* (A bootstrap that never starts it.)
NeedsSandboxNever(network) == FALSE

NeedsSandbox(network) == network = "sandbox"

\* The callback of child.exec: whether the promise is rejected.
\* (A callback that resolves whatever the exit status.)
ExecRejectsNever(err) == FALSE

ExecRejects(err) == err

\* bootstrap's catch: logs and rejects with the error caught.
BootstrapCatch(lg, error) ==
    [pc |-> "done",
     log |-> Append(lg, Ev("console", "failed to start.")),
     outcome |-> Rejected(error)]

\* originateBalanceInspector up to its first suspension on the network.
originateBalanceInspector(lg, cfg, orig_alias) ==
    LET lg1 == Append(lg, Ev("console", "originating balance inspector contract..."))
        tezos == createToolkit(orig_alias, cfg)
        lg2 == Append(lg1, Ev("createToolkit", IF tezos.ok THEN "ok" ELSE "fail"))
    IN  IF tezos.ok
        THEN [pc |-> "loadFile", log |-> lg2, outcome |-> Pending]
        ELSE BootstrapCatch(lg2, tezos.error)

Bootstrap(p) ==
    /\ CanStart(p)
    /\ CanOriginate(p)
    /\ Begin(p, "bootstrap", NoArgs, NoResult)
    /\ LET network == config.activeNetwork
           lg == <<Ev("bootstrap", network)>>
       IN  IF NeedsSandbox(network)
           THEN Step(p, "startSandbox",
                     Append(lg, Ev("exec", "start-sandbox.sh")), Pending)
           ELSE LET r == originateBalanceInspector(lg, config, Bob)
                IN  Step(p, r.pc, r.log, r.outcome)
    /\ UNCHANGED <<config, batch, compiled, nContracts>>

\* The start script ends; on success the handle for the probe is built.
SandboxExecDone(p) ==
    /\ pc[p] = "startSandbox"
    /\ \E err \in BOOLEAN :
         LET lg == Append(log[p], Ev("exec_done", IF err THEN "err" ELSE "ok")) IN
         IF ExecRejects(err)
         THEN LET r == BootstrapCatch(
                         Append(lg, Ev("console", "failed to start sandbox")),
                         [cause |-> "undefined"])
              IN  Step(p, r.pc, r.log, r.outcome)
         ELSE LET toolkit == createToolkit(Bob, config)
                  lg1 == Append(Append(lg, Ev("console", "starting sandbox...")),
                                Ev("createToolkit",
                                   IF toolkit.ok THEN "ok" ELSE "fail"))
              IN  IF toolkit.ok
                  THEN Step(p, "probe", lg1, Pending)
                  ELSE LET r == BootstrapCatch(lg1, toolkit.error)
                       IN  Step(p, r.pc, r.log, r.outcome)
    /\ UNCHANGED <<config, batch, compiled, cmd, args, failures, cfgAtStart,
                   result, nContracts>>

\* One attempt of the readiness probe under retry().
Probe(p) ==
    /\ pc[p] = "probe"
    /\ \E ok \in BOOLEAN :
         LET lg == Append(Append(log[p], Ev("console", "rpc...")),
                          Ev("getBlockHeader", IF ok THEN "ok" ELSE "fail"))
         IN  IF ok
             THEN /\ LET r == originateBalanceInspector(
                                Append(lg, Ev("console", "sandbox started")),
                                config, Bob)
                     IN  Step(p, r.pc, r.log, r.outcome)
                  /\ UNCHANGED failures
             ELSE /\ failures' = [failures EXCEPT ![p] = @ + 1]
                  /\ IF CanRetry(failures[p] + 1)
                     THEN Step(p, "probe", lg, Pending)
                     ELSE LET r == BootstrapCatch(lg, [cause |-> "rpc_error"])
                          IN  Step(p, r.pc, r.log, r.outcome)
    /\ UNCHANGED <<config, batch, compiled, cmd, args, cfgAtStart, result,
                   nContracts>>

----------------------------------------------------------------------------
(* Origination: originateInspector, mintNfts and originateContract. *)

\* A MichelsonMap: a finite function; set() overwrites the value of a key.
EmptyMap == [k \in {} |-> NoResult]

\* A set() that keeps the value a key already has.
MapSetOnce(m, k, v) == [x \in DOMAIN m \cup {k} |-> IF x \in DOMAIN m THEN m[x] ELSE v]

MapSet(m, k, v) == [x \in DOMAIN m \cup {k} |-> IF x = k THEN v ELSE m[x]]

TokenMetadata(id, symbol, name) ==
    [token_id |-> BigNumber(id), symbol |-> symbol, name |-> name,
     decimals |-> BigNumber(<<"0">>), extras |-> EmptyMap]

Token0 == TokenMetadata(<<"0">>, <<"T", "K">>, <<"z", "e", "r", "o">>)
Token1 == TokenMetadata(<<"1">>, <<"T", "K">>, <<"o", "n", "e">>)
Token1Again == TokenMetadata(<<"1">>, <<"T", "K">>, <<"u", "n", "o">>)

\* The token lists mintNfts is called with.
TokenLists ==
    {<<>>, <<Token0>>, <<Token0, Token1>>, <<Token1, Token1Again>>,
     <<Token1, Token0, Token1Again>>}

\* The loop of createNftStorage over tokens[i..], from the maps built so far.
RECURSIVE StorageFrom(_, _, _, _)
StorageFrom(tokens, owner, ledger, token_metadata) ==
    IF tokens = <<>>
    THEN [ledger |-> ledger, operators |-> EmptyMap,
          token_metadata |-> token_metadata]
    ELSE LET meta == Head(tokens) IN
         StorageFrom(Tail(tokens), owner,
                     MapSet(ledger, meta.token_id, owner),
                     MapSet(token_metadata, meta.token_id, meta))

\* An encoder that leaves the first token out.
createNftStorageOfRest(tokens, owner) ==
    StorageFrom(Tail(tokens), owner, EmptyMap, EmptyMap)

createNftStorage(tokens, owner) == StorageFrom(tokens, owner, EmptyMap, EmptyMap)

\* The name originateContract is given by the running operation.
OriginationName(p) == IF cmd[p] = "bootstrap" THEN "inspector" ELSE "nft"

\* The value originateContract rejects with: the error it caught.
\* (Wrapping it with the name would give a labelled error.)
OriginationRejectionLabelled(name, error) == [label |-> name, cause |-> error.cause]

OriginationRejection(name, error) == error

\* originateContract's catch, and the catch of bootstrap when it is the caller.
OriginateCatch(p, lg, error) ==
    LET name == OriginationName(p)
        lg1 == Append(lg, Ev("console_origination_error", name))
        rejection == OriginationRejection(name, error)
    IN  IF cmd[p] = "bootstrap"
        THEN BootstrapCatch(lg1, rejection)
        ELSE [pc |-> "done", log |-> lg1, outcome |-> Rejected(rejection)]

\* The test mintNfts makes before anything else. (Without it an empty list
\* would go on to an origination.)
NoTokensNever(tokens) == FALSE

NoTokens(tokens) == Len(tokens) = 0

mintNfts(p) ==
    /\ CanStart(p)
    /\ CanOriginate(p)
    /\ \E owner \in {Bob, Zed}, tokens \in TokenLists :
         /\ Begin(p, "mintNfts", [owner |-> owner, tokens |-> tokens], NoResult)
         /\ IF NoTokens(tokens)
            THEN Step(p, "done", <<Ev("mintNfts", "no tokens")>>,
                      Rejected([cause |-> "there are no token definitions provided"]))
            ELSE LET tz == createToolkit(owner, config)
                     lg == <<Ev("mintNfts", "tokens"),
                             Ev("loadUserConfig", "mintNfts"),
                             Ev("createToolkit", IF tz.ok THEN "ok" ELSE "fail")>>
                 IN  IF tz.ok
                     THEN Step(p, "loadFile", lg, Pending)
                     ELSE Step(p, "done", lg, Rejected(tz.error))
    /\ UNCHANGED <<config, batch, compiled, nContracts>>

\* loadFile of the contract code ends; the origination parameters are built.
LoadFile(p) ==
    /\ pc[p] = "loadFile"
    /\ \E ok \in BOOLEAN :
         LET lg == Append(log[p], Ev("loadFile", IF ok THEN "ok" ELSE "fail")) IN
         IF ~ok
         THEN /\ IF cmd[p] = "bootstrap"
                 THEN LET r == BootstrapCatch(lg, [cause |-> "file_error"])
                      IN  Step(p, r.pc, r.log, r.outcome)
                 ELSE Step(p, "done", lg, Rejected([cause |-> "file_error"]))
              /\ UNCHANGED result
         ELSE /\ Step(p, "originate", lg, Pending)
              /\ result' = [result EXCEPT ![p] =
                    IF cmd[p] = "bootstrap"
                    THEN [init |-> "(Left Unit)"]
                    ELSE [storage |-> createNftStorage(
                                         args[p].tokens,
                                         createToolkit(args[p].owner, config).value.signer)]]
    /\ UNCHANGED <<config, batch, compiled, cmd, args, failures, cfgAtStart,
                   nContracts>>

\* tz.contract.originate(origParam) is answered by the network.
OriginateSubmit(p) ==
    /\ pc[p] = "originate"
    /\ \E accepted \in BOOLEAN :
         LET lg == Append(Append(log[p], Ev("originate", OriginationName(p))),
                          Ev("originate_answer",
                             IF accepted THEN "accepted" ELSE "rejected"))
         IN
         IF accepted
         THEN Step(p, "confirm", lg, Pending)
         ELSE LET r == OriginateCatch(p, lg, [cause |-> "submission_rejected"])
              IN  Step(p, r.pc, r.log, r.outcome)
    /\ UNCHANGED <<config, batch, compiled, cmd, args, failures, cfgAtStart,
                   result, nContracts>>

\* Whether the caller of the origination stores the address returned: only
\* originateBalanceInspector does. (A caller-blind store would write it for
\* every origination.)
PersistsInspectorAlways(operation) == TRUE

PersistsInspector(operation) == operation = "bootstrap"

\* originationOp.contract() ends; the caller then uses the address returned.
OriginateConfirm(p) ==
    /\ pc[p] = "confirm"
    /\ \E confirmed \in BOOLEAN :
         LET lg == Append(log[p], Ev("contract", IF confirmed THEN "ok" ELSE "fail")) IN
         IF ~confirmed
         THEN /\ LET r == OriginateCatch(p, lg, [cause |-> "confirmation_failed"])
                 IN  Step(p, r.pc, r.log, r.outcome)
              /\ UNCHANGED <<config, result, nContracts>>
         ELSE LET address == ContractAddress(nContracts + 1) IN
              /\ nContracts' = nContracts + 1
              /\ result' = [result EXCEPT ![p] = [address |-> address]]
              /\ IF PersistsInspector(cmd[p])
                 THEN /\ config' = SetInspector(config, address)
                      /\ Step(p, "done",
                              Append(Append(lg, Ev("config.set", "inspector")),
                                     Ev("console", "originated balance inspector")),
                              Resolved)
                 ELSE /\ UNCHANGED config
                      /\ Step(p, "done",
                              Append(lg, Ev("console", "originated NFT collection")),
                              Resolved)
    /\ UNCHANGED <<batch, compiled, cmd, args, failures, cfgAtStart>>

----------------------------------------------------------------------------
(* The balance query. *)

\* How showBalances ends when no inspector address is configured.
MissingInspectorOutcome == Resolved

showBalances(p) ==
    /\ CanStart(p)
    /\ \E signer \in {Bob, Zed}, owner \in {Alice, Zed} :
         LET nft == NftLiteral
             tokens == <<<<"0">>, <<"1">>>>
             tz == createToolkit(signer, config)
             ownerAddress == resolveAlias2Address(owner, config)
             nftAddress == resolveAlias2Address(nft, config)
             inspectorAddress == InspectorOf(config)
             lg == <<Ev("showBalances", "start"),
                     Ev("createToolkit", IF tz.ok THEN "ok" ELSE "fail")>>
         IN  /\ Begin(p, "showBalances",
                      [signer |-> signer, nft |-> nft, owner |-> owner,
                       tokens |-> tokens],
                      NoResult)
             /\ IF ~tz.ok THEN Step(p, "done", lg, Rejected(tz.error))
                ELSE IF ~ownerAddress.ok
                THEN Step(p, "done", lg, Rejected(ownerAddress.error))
                ELSE IF ~nftAddress.ok
                THEN Step(p, "done", lg, Rejected(nftAddress.error))
                ELSE IF Falsy(inspectorAddress) \/ inspectorAddress.type # "string"
                THEN Step(p, "done",
                          Append(Append(lg,
                              Ev("console", "Cannot find deployed balance inspector contract.")),
                              Ev("suggestCommand", "bootstrap")),
                          MissingInspectorOutcome)
                ELSE Step(p, "contract.at",
                          Append(lg, Ev("console", "querying NFT contract")),
                          Pending)
    /\ UNCHANGED <<config, batch, compiled, nContracts>>

\* tz.contract.at(inspectorAddress) is answered.
BalancesContractAt(p) ==
    /\ pc[p] = "contract.at"
    /\ \E ok \in BOOLEAN :
         LET lg == Append(log[p], Ev("contract.at", IF ok THEN "ok" ELSE "fail")) IN
         IF ok THEN Step(p, "query.send", lg, Pending)
         ELSE Step(p, "done", lg, Rejected([cause |-> "contract_not_found"]))
    /\ UNCHANGED <<config, batch, compiled, cmd, args, failures, cfgAtStart,
                   result, nContracts>>

\* inspector.methods.query(nftAddress, requests).send() is answered.
BalancesQuerySend(p) ==
    /\ pc[p] = "query.send"
    /\ \E ok \in BOOLEAN :
         LET lg == Append(log[p], Ev("query.send", IF ok THEN "ok" ELSE "fail")) IN
         IF ok THEN Step(p, "query.confirmation", lg, Pending)
         ELSE Step(p, "done", lg, Rejected([cause |-> "submission_rejected"]))
    /\ UNCHANGED <<config, batch, compiled, cmd, args, failures, cfgAtStart,
                   result, nContracts>>

\* balanceOp.confirmation() ends.
BalancesConfirmation(p) ==
    /\ pc[p] = "query.confirmation"
    /\ \E ok \in BOOLEAN :
         LET lg == Append(log[p], Ev("confirmation", IF ok THEN "ok" ELSE "fail")) IN
         IF ok THEN Step(p, "inspector.storage", lg, Pending)
         ELSE Step(p, "done", lg, Rejected([cause |-> "confirmation_failed"]))
    /\ UNCHANGED <<config, batch, compiled, cmd, args, failures, cfgAtStart,
                   result, nContracts>>

\* inspector.storage() is answered: the state is an array, or is not, or the
\* request fails.
BalancesStorage(p) ==
    /\ pc[p] = "inspector.storage"
    /\ \E answer \in {"array", "not_array", "fail"} :
         LET lg == Append(log[p], Ev("storage", answer)) IN
         IF answer = "array"
         THEN Step(p, "done", Append(lg, Ev("console", "requested NFT balances:")),
                   Resolved)
         ELSE IF answer = "not_array"
         THEN Step(p, "done",
                   Append(lg, Ev("console", "invalid inspector storage state")),
                   Rejected([cause |-> "Invalid inspector storage state Empty."]))
         ELSE Step(p, "done", lg, Rejected([cause |-> "rpc_error"]))
    /\ UNCHANGED <<config, batch, compiled, cmd, args, failures, cfgAtStart,
                   result, nContracts>>

----------------------------------------------------------------------------
(* Operator lists. *)

O_bob_1 == <<"b", "o", "b", ",", "1">>
O_alice_2 == <<"a", "l", "i", "c", "e", ",", "2">>
O_bad == Bad
O_bob_abc == <<"b", "o", "b", ",", "a", "b", "c">>
O_bob == Bob
O_zed_1 == <<"z", "e", "d", ",", "1">>

\* The operator descriptors an updateOperators call is drawn from.
OperatorDescriptors == {O_bob_1, O_alice_2, O_bad, O_bob_abc, O_bob, O_zed_1}

\* The sequences over S of length at most n.
SeqsUpTo(S, n) == UNION {[1..k -> S] : k \in 0..n}

\* The body of the map callback of resolveOperators for one descriptor.
ResolveOperator(owner, o, cfg) ==
    LET parts == Split(o, ",")
        op == Field(parts, 1)
        token == Field(parts, 2)
        operator == resolveAlias2Address(op, cfg)
        token_id == BigNumber(token)
    IN  IF operator.ok
        THEN Ok([owner |-> owner, operator |-> operator.value, token_id |-> token_id])
        ELSE Fail(operator.error.cause)

\* Promise.all over the resolutions: rejected if one is, else every value in
\* the order of the input.
resolveOperators(owner, operators, cfg) ==
    LET resolved == [i \in 1..Len(operators) |->
                        ResolveOperator(owner, operators[i], cfg)]
    IN  IF \E i \in 1..Len(operators) : ~resolved[i].ok
        THEN LET i == CHOOSE j \in 1..Len(operators) :
                         /\ ~resolved[j].ok
                         /\ \A k \in 1..(j - 1) : resolved[k].ok
             IN  [ok |-> FALSE, value |-> <<>>, error |-> resolved[i].error]
        ELSE [ok |-> TRUE,
              value |-> [i \in 1..Len(operators) |-> resolved[i].value],
              error |-> [cause |-> "none"]]

NotCalled == [ok |-> FALSE, value |-> <<>>, error |-> [cause |-> "not_called"]]

updateOperators(p) ==
    /\ CanStart(p)
    /\ \E owner \in {Bob}, nft \in {NftLiteral, Zed},
          addOperators \in SeqsUpTo(OperatorDescriptors, MaxOperators) :
       \E removeOperators \in
             SeqsUpTo(OperatorDescriptors, MaxOperators - Len(addOperators)) :
         LET tz == createToolkit(owner, config)
             ownerAddress == tz.value.signer
             resolvedAdd == resolveOperators(ownerAddress, addOperators, config)
             resolvedRemove == resolveOperators(ownerAddress, removeOperators, config)
             nftAddress == resolveAlias2Address(nft, config)
             lg == <<Ev("updateOperators", "start"),
                     Ev("createToolkit", IF tz.ok THEN "ok" ELSE "fail")>>
             cannotParse == Ev("console", "cannot parse operator definition")
         IN  /\ Begin(p, "updateOperators",
                      [owner |-> owner, nft |-> nft, addOperators |-> addOperators,
                       removeOperators |-> removeOperators],
                      [add |-> IF tz.ok THEN resolvedAdd ELSE NotCalled,
                       remove |-> IF tz.ok /\ resolvedAdd.ok
                                  THEN resolvedRemove ELSE NotCalled])
             /\ IF ~tz.ok
                THEN Step(p, "done", lg, Rejected(tz.error))
                ELSE IF ~resolvedAdd.ok
                THEN Step(p, "done", Append(lg, cannotParse),
                          Rejected(resolvedAdd.error))
                ELSE IF ~resolvedRemove.ok
                THEN Step(p, "done", Append(lg, cannotParse),
                          Rejected(resolvedRemove.error))
                ELSE IF ~nftAddress.ok
                THEN Step(p, "done", lg, Rejected(nftAddress.error))
                ELSE Step(p, "fa2.updateOperators", lg, Pending)
    /\ UNCHANGED <<config, batch, compiled, nContracts>>


\* fa2.updateOperators(nftAddress, tz, resolvedAdd, resolvedRemove) ends.
UpdateOperatorsSend(p) ==
    /\ pc[p] = "fa2.updateOperators"
    /\ \E ok \in BOOLEAN :
         LET lg == Append(log[p], Ev("update_operators", IF ok THEN "ok" ELSE "fail")) IN
         IF ok THEN Step(p, "done", lg, Resolved)
         ELSE Step(p, "done", lg, Rejected([cause |-> "submission_rejected"]))
    /\ UNCHANGED <<config, batch, compiled, cmd, args, failures, cfgAtStart,
                   result, nContracts>>

----------------------------------------------------------------------------
(* kill: stopping the sandbox. *)

\* Whether kill stops the sandbox for the active network. (A kill that
\* always runs the stop script.)
KillsSandboxAlways(network) == TRUE

KillsSandbox(network) == network = "sandbox"

kill(p) ==
    /\ CanStart(p)
    /\ Begin(p, "kill", NoArgs, NoResult)
    /\ LET network == config.activeNetwork
           lg == <<Ev("kill", network)>>
       IN  IF KillsSandbox(network)
           THEN Step(p, "killSandbox",
                     Append(lg, Ev("exec", "kill-sandbox.sh")), Pending)
           ELSE Step(p, "done", lg, Resolved)
    /\ UNCHANGED <<config, batch, compiled, nContracts>>

\* The stop script ends.
KillExecDone(p) ==
    /\ pc[p] = "killSandbox"
    /\ \E err \in BOOLEAN :
         LET lg == Append(log[p], Ev("exec_done", IF err THEN "err" ELSE "ok")) IN
         IF err
         THEN Step(p, "done", Append(lg, Ev("console", "failed to stop sandbox")),
                   Rejected([cause |-> "exec_error"]))
         ELSE Step(p, "done", Append(lg, Ev("console", "killed sandbox.")),
                   Resolved)
    /\ UNCHANGED <<config, batch, compiled, cmd, args, failures, cfgAtStart,
                   result, nContracts>>

----------------------------------------------------------------------------
(* The metadata query. *)

\* MichelsonMap.get: the value of a key, or undefined.
MapGet(m, k) ==
    IF k \in DOMAIN m THEN [present |-> TRUE, value |-> m[k]]
    ELSE [present |-> FALSE, value |-> NoResult]

\* The token ids showMetadata is asked for.
MetadataRequests ==
    {<<>>, <<<<"0">>, <<"1">>>>, <<<<"1">>, <<"5">>>>, <<<<"7">>>>,
     <<<<"5">>, <<"0">>, <<"x">>>>}

\* The token_metadata maps a contract's storage can hold.
StoredMetadata ==
    {createNftStorage(tokens, AliasAddress(Bob)).token_metadata :
        tokens \in {<<>>, <<Token0>>, <<Token0, Token1>>}}

\* The pairs {tid, meta} of showMetadata, one for each token asked for.
TokensMeta(tokens, meta) ==
    [i \in 1..Len(tokens) |->
        LET tid == BigNumber(tokens[i]) IN [tid |-> tid, meta |-> MapGet(meta, tid)]]

\* A report that takes every pair for a found one.
ReportOfFound(m) == Ev("printTokenMetadata", "found")

\* What the forEach of showMetadata prints for one pair.
ReportOf(m) ==
    IF m.meta.present THEN Ev("printTokenMetadata", "found")
    ELSE Ev("console", "token is missing")

RECURSIVE Reports(_)
Reports(tokensMeta) ==
    IF tokensMeta = <<>> THEN <<>>
    ELSE <<ReportOf(Head(tokensMeta))>> \o Reports(Tail(tokensMeta))

showMetadata(p) ==
    /\ CanStart(p)
    /\ \E signer \in {Bob, Zed}, nft \in {NftLiteral, Zed},
          tokens \in MetadataRequests :
         LET tz == createToolkit(signer, config)
             nftAddress == resolveAlias2Address(nft, config)
             lg == <<Ev("showMetadata", "start"),
                     Ev("createToolkit", IF tz.ok THEN "ok" ELSE "fail")>>
         IN  /\ Begin(p, "showMetadata",
                      [signer |-> signer, nft |-> nft, tokens |-> tokens],
                      NoResult)
             /\ IF ~tz.ok THEN Step(p, "done", lg, Rejected(tz.error))
                ELSE IF ~nftAddress.ok
                THEN Step(p, "done", lg, Rejected(nftAddress.error))
                ELSE Step(p, "nft.at", lg, Pending)
    /\ UNCHANGED <<config, batch, compiled, nContracts>>

\* tz.contract.at(nftAddress) is answered.
MetadataContractAt(p) ==
    /\ pc[p] = "nft.at"
    /\ \E ok \in BOOLEAN :
         LET lg == Append(log[p], Ev("contract.at", IF ok THEN "ok" ELSE "fail")) IN
         IF ok THEN Step(p, "nft.storage", lg, Pending)
         ELSE Step(p, "done", lg, Rejected([cause |-> "contract_not_found"]))
    /\ UNCHANGED <<config, batch, compiled, cmd, args, failures, cfgAtStart,
                   result, nContracts>>

\* nftContract.storage() is answered: the request fails, or the storage has
\* no token_metadata map, or it has one; then every token asked for is looked
\* up and reported.
MetadataStorage(p) ==
    /\ pc[p] = "nft.storage"
    /\ \/ /\ \E cause \in {"rpc_error", "token_metadata_undefined"} :
               Step(p, "done", Append(log[p], Ev("storage", "fail")),
                    Rejected([cause |-> cause]))
          /\ UNCHANGED result
       \/ \E meta \in StoredMetadata :
            LET tokensMeta == TokensMeta(args[p].tokens, meta) IN
            /\ result' = [result EXCEPT ![p] =
                              [meta |-> meta, tokensMeta |-> tokensMeta]]
            /\ Step(p, "done",
                    Append(log[p], Ev("storage", "ok")) \o Reports(tokensMeta),
                    Resolved)
    /\ UNCHANGED <<config, batch, compiled, cmd, args, failures, cfgAtStart,
                   nContracts>>

----------------------------------------------------------------------------
(* The transfer operation. *)

MaxTransfers == 2

T_bob_alice_1 == <<"b", "o", "b", ",", "a", "l", "i", "c", "e", ",", "1">>
T_bob_zed_2 == <<"b", "o", "b", ",", "z", "e", "d", ",", "2">>
T_zed_alice_3 == <<"z", "e", "d", ",", "a", "l", "i", "c", "e", ",", "3">>
T_alice_tz1x_4 == <<"a", "l", "i", "c", "e", ",", "t", "z", "1", "x", ",", "4">>
T_bob_tz1x_5 == <<"b", "o", "b", ",", "t", "z", "1", "x", ",", "5">>

\* The descriptors the batch of a transfer call is compiled from.
AliasTransferDescriptors ==
    {T_bob_alice_1, T_bob_zed_2, T_zed_alice_3, T_alice_tz1x_4, T_bob_tz1x_5}

\* The batch the command line compiles from --batch options, left to right.
RECURSIVE CompileBatch(_, _)
CompileBatch(descriptions, b) ==
    IF descriptions = <<>> THEN b
    ELSE CompileBatch(Tail(descriptions), parseTransfers(Head(descriptions), b))

\* The batches a transfer call is given.
TransferBatches ==
    {CompileBatch(ds, <<>>) : ds \in SeqsUpTo(AliasTransferDescriptors, MaxTransfers)}

\* The first failure of a sequence of resolutions, or all their values.
AllOrFirstFailure(resolved) ==
    IF \E i \in 1..Len(resolved) : ~resolved[i].ok
    THEN LET i == CHOOSE j \in 1..Len(resolved) :
                     /\ ~resolved[j].ok
                     /\ \A k \in 1..(j - 1) : resolved[k].ok
         IN  Fail(resolved[i].error.cause)
    ELSE Ok([i \in 1..Len(resolved) |-> resolved[i].value])

\* A resolution that keeps what resolved and drops what did not.
DropFailures(resolved) ==
    Ok([i \in 1..Cardinality({j \in 1..Len(resolved) : resolved[j].ok}) |->
          resolved[CHOOSE j \in 1..Len(resolved) :
                      /\ resolved[j].ok
                      /\ Cardinality({k \in 1..j : resolved[k].ok}) = i].value])

\* Promise.all over the promises of a map callback.
PromiseAll(resolved) == AllOrFirstFailure(resolved)

\* A join that gives the destinations last first.
resolveTxDestinationAddressesReversed(txs, cfg) ==
    PromiseAll([i \in 1..Len(txs) |->
        LET t == txs[Len(txs) + 1 - i]
            to_ == resolveAlias2Address(t.to_, cfg)
        IN  IF to_.ok
            THEN Ok([to_ |-> to_.value, amount |-> t.amount,
                     token_id |-> t.token_id])
            ELSE Fail(to_.error.cause)])

resolveTxDestinationAddresses(txs, cfg) ==
    PromiseAll([i \in 1..Len(txs) |->
        LET to_ == resolveAlias2Address(txs[i].to_, cfg) IN
        IF to_.ok
        THEN Ok([to_ |-> to_.value, amount |-> txs[i].amount,
                 token_id |-> txs[i].token_id])
        ELSE Fail(to_.error.cause)])

resolveTxAddresses(transfers, cfg) ==
    PromiseAll([i \in 1..Len(transfers) |->
        LET from_ == resolveAlias2Address(transfers[i].from_, cfg)
            txs == resolveTxDestinationAddresses(transfers[i].txs, cfg)
        IN  IF ~from_.ok THEN Fail(from_.error.cause)
            ELSE IF ~txs.ok THEN Fail(txs.error.cause)
            ELSE Ok([from_ |-> from_.value, txs |-> txs.value])])

transfer(p) ==
    /\ CanStart(p)
    /\ \E signer \in {Bob, Zed}, nft \in {NftLiteral, Zed},
          b \in TransferBatches :
         LET txs == resolveTxAddresses(b, config)
             nftAddress == resolveAlias2Address(nft, config)
             tz == createToolkit(signer, config)
             lg == <<Ev("transfer", "start")>>
             lgTz == Append(lg, Ev("createToolkit",
                                   IF tz.ok THEN "ok" ELSE "fail"))
         IN  /\ Begin(p, "transfer",
                      [signer |-> signer, nft |-> nft, batch |-> b],
                      IF txs.ok THEN [txs |-> txs.value] ELSE NoResult)
             /\ IF ~txs.ok THEN Step(p, "done", lg, Rejected(txs.error))
                ELSE IF ~nftAddress.ok
                THEN Step(p, "done", lg, Rejected(nftAddress.error))
                ELSE IF ~tz.ok THEN Step(p, "done", lgTz, Rejected(tz.error))
                ELSE Step(p, "fa2.transfer", lgTz, Pending)
    /\ UNCHANGED <<config, batch, compiled, nContracts>>

\* fa2.transfer submits the transfer and waits for it.
TransferSend(p) ==
    /\ pc[p] = "fa2.transfer"
    /\ \E ok \in BOOLEAN :
         LET lg == Append(log[p], Ev("fa2.transfer", IF ok THEN "ok" ELSE "fail")) IN
         IF ok THEN Step(p, "done", lg, Resolved)
         ELSE Step(p, "done", lg, Rejected([cause |-> "operation_failed"]))
    /\ UNCHANGED <<config, batch, compiled, cmd, args, failures, cfgAtStart,
                   result, nContracts>>

----------------------------------------------------------------------------
(* Specifications. *)

\* The invocation of a behaviour in which operations run one after another.
Main == CHOOSE p \in Procs : \A q \in Procs : p <= q

\* The operations of the client, run one after another on one store.
Next ==
    \/ Bootstrap(Main)
    \/ SandboxExecDone(Main)
    \/ Probe(Main)
    \/ mintNfts(Main)
    \/ LoadFile(Main)
    \/ OriginateSubmit(Main)
    \/ OriginateConfirm(Main)
    \/ showBalances(Main)
    \/ BalancesContractAt(Main)
    \/ BalancesQuerySend(Main)
    \/ BalancesConfirmation(Main)
    \/ BalancesStorage(Main)

Spec == Init /\ [][Next]_vars

\* A store with every key the operations read.
DefaultConfig ==
    [activeNetwork |-> "testnet",
     providerUrl   |-> [n \in Networks |-> StringValue(ProviderUrl)],
     inspector     |-> [n \in Networks |-> UndefinedValue],
     aliases       |-> {Bob, Alice}]

\* The batch compiler applied to the descriptors of one command line.
InitCompile == Init /\ config = DefaultConfig

SpecCompile == InitCompile /\ [][ParseTransfers]_vars

\* updateOperators on stores that differ in the aliases and the provider.
InitOperators ==
    /\ Init
    /\ config.activeNetwork = "testnet"
    /\ config.inspector = DefaultConfig.inspector
    /\ config.providerUrl["sandbox"] = UndefinedValue

\* One call in a behaviour: updateOperators leaves the store as it is, so a
\* second call would start from the same store.
NextOperators ==
    \/ pc[Main] = "idle" /\ updateOperators(Main)
    \/ UpdateOperatorsSend(Main)

SpecOperators == InitOperators /\ [][NextOperators]_vars

\* The command ends and the next one is typed: nothing of the finished
\* operation is kept but what it wrote to the store and to the network.
Return(p) ==
    /\ pc[p] = "done"
    /\ pc' = [pc EXCEPT ![p] = "idle"]
    /\ cmd' = [cmd EXCEPT ![p] = "none"]
    /\ args' = [args EXCEPT ![p] = NoArgs]
    /\ log' = [log EXCEPT ![p] = <<>>]
    /\ failures' = [failures EXCEPT ![p] = 0]
    /\ outcome' = [outcome EXCEPT ![p] = Pending]
    /\ cfgAtStart' = [cfgAtStart EXCEPT ![p] = config]
    /\ result' = [result EXCEPT ![p] = NoResult]
    /\ UNCHANGED <<config, batch, compiled, nContracts>>

Idle(p) == pc[p] = "idle"

\* Every operation of the client, one command after another, on stores where
\* only the active network is configured.
InitClient ==
    /\ Init
    /\ \A n \in Networks \ {config.activeNetwork} :
         /\ config.providerUrl[n] = UndefinedValue
         /\ config.inspector[n] = UndefinedValue

NextClient ==
    \/ Idle(Main) /\ Bootstrap(Main)
    \/ SandboxExecDone(Main)
    \/ Probe(Main)
    \/ Idle(Main) /\ kill(Main)
    \/ KillExecDone(Main)
    \/ Idle(Main) /\ mintNfts(Main)
    \/ LoadFile(Main)
    \/ OriginateSubmit(Main)
    \/ OriginateConfirm(Main)
    \/ Idle(Main) /\ showBalances(Main)
    \/ BalancesContractAt(Main)
    \/ BalancesQuerySend(Main)
    \/ BalancesConfirmation(Main)
    \/ BalancesStorage(Main)
    \/ Idle(Main) /\ showMetadata(Main)
    \/ MetadataContractAt(Main)
    \/ MetadataStorage(Main)
    \/ Idle(Main) /\ transfer(Main)
    \/ TransferSend(Main)
    \/ Idle(Main) /\ updateOperators(Main)
    \/ UpdateOperatorsSend(Main)
    \/ Return(Main)

SpecClient == InitClient /\ [][NextClient]_vars

\* Spec with every external call returning: a suspended bootstrap or
\* origination is resumed when the script, the node or the file system answers.
SpecLive ==
    /\ Spec
    /\ WF_vars(SandboxExecDone(Main))
    /\ WF_vars(Probe(Main))
    /\ WF_vars(LoadFile(Main))
    /\ WF_vars(OriginateSubmit(Main))
    /\ WF_vars(OriginateConfirm(Main))

----------------------------------------------------------------------------
(* Properties of the batch compiler (checked under SpecCompile). *)

Sender(description) == TransferOf(description).from_

Destination(description) == TransferOf(description).txs[1]

\* C1. Descriptors of senders a, x, a (a # x) compiled in this order from an
\* empty batch give three entries, of senders a, x, a: the two entries of a
\* are not merged.
C1_NonAdjacentNotMerged ==
    (/\ Len(compiled) = 3
     /\ Sender(compiled[1]) = Sender(compiled[3])
     /\ Sender(compiled[1]) # Sender(compiled[2]))
    => /\ Len(batch) = 3
       /\ \A i \in 1..3 : batch[i].from_ = Sender(compiled[i])

\* The merge rule as stated: the entry added last is the one tested.
CompileByLastEntry(description, b) ==
    LET tx == TransferOf(description) IN
    IF Len(b) > 0 /\ b[Len(b)].from_ = tx.from_
    THEN [b EXCEPT ![Len(b)].txs = @ \o tx.txs]
    ELSE Append(b, tx)

RECURSIVE CompileAllByLastEntry(_)
CompileAllByLastEntry(descriptions) ==
    IF descriptions = <<>> THEN <<>>
    ELSE CompileByLastEntry(
             descriptions[Len(descriptions)],
             CompileAllByLastEntry(SubSeq(descriptions, 1, Len(descriptions) - 1)))

\* C2. After any sequence of descriptors compiled from an empty batch, no two
\* adjacent entries have the same from_, and the batch is the one obtained by
\* merging each descriptor into the entry added last when the senders are
\* equal and appending a new entry otherwise.
C2_AdjacentMerged ==
    /\ \A i \in 1..(Len(batch) - 1) : batch[i].from_ # batch[i + 1].from_
    /\ batch = CompileAllByLastEntry(compiled)

\* C5 as amended. Two descriptors of the same sender compiled one after the
\* other from an empty batch give one entry of that sender, whose txs are the
\* two destinations in the order compiled: "a,c,2" then "a,b,1" gives
\* [c:2, b:1].
C5_MergedInCompileOrder ==
    (Len(compiled) = 2 /\ Sender(compiled[1]) = Sender(compiled[2]))
    => /\ Len(batch) = 1
       /\ batch[1].from_ = Sender(compiled[1])
       /\ batch[1].txs = <<Destination(compiled[1]), Destination(compiled[2])>>

\* C5 as stated: "a,b,1" compiled immediately after "a,c,2" gives one entry
\* whose txs are [b:1, c:2].
C5_MergedInReverseOrder ==
    compiled = <<D_a_c_2, D_a_b_1>>
    => /\ Len(batch) = 1
       /\ batch[1].from_ = <<"a">>
       /\ batch[1].txs = <<Destination(D_a_b_1), Destination(D_a_c_2)>>

\* "a,b,1" has been compiled immediately after "a,c,2" and merged with it.
C5_Witness ==
    /\ compiled = <<D_a_c_2, D_a_b_1>>
    /\ Len(batch) = 1
    /\ Len(batch[1].txs) = 2

----------------------------------------------------------------------------
(* Properties of bootstrap, origination and the balance query (under Spec). *)

BootstrapRuns == {p \in Procs : cmd[p] = "bootstrap"}

OnSandbox(p) == cfgAtStart[p].activeNetwork = "sandbox"

\* Every event `name` of the log comes after an event Ev(before, arg).
Precedes(lg, before, arg, name) ==
    \A i \in 1..Len(lg) :
        lg[i].ev = name => \E j \in 1..(i - 1) : lg[j] = Ev(before, arg)

NetworkUnreachable(p) ==
    outcome[p].status = "rejected" /\ outcome[p].error = [cause |-> "rpc_error"]

\* C3 as amended. In one bootstrap() run the block-header call is made at
\* most 9 times (the first call and 8 retries); after the 9th consecutive
\* failure no further call is made and bootstrap is rejected.
C3_AtMostNineProbes ==
    \A p \in BootstrapRuns :
        /\ Count(log[p], "getBlockHeader") <= 9
        /\ failures[p] = 9 => pc[p] = "done" /\ outcome[p].status = "rejected"

\* C3 as stated: at most 8 calls in total, and bootstrap has failed after the
\* 8th consecutive failure.
C3_AtMostEightProbes ==
    \A p \in BootstrapRuns :
        /\ Count(log[p], "getBlockHeader") <= 8
        /\ failures[p] = 8 => pc[p] = "done" /\ outcome[p].status = "rejected"

\* The block-header call has failed 9 times in a run, which then is rejected.
C3_Witness ==
    /\ cmd[Main] = "bootstrap"
    /\ Count(log[Main], "getBlockHeader") = 9
    /\ failures[Main] = 9
    /\ outcome[Main].status = "rejected"

\* C4 as amended. In every bootstrap() run the inspector address is persisted
\* only after the origination submitted in that run has been confirmed; when
\* the active network is sandbox the origination is submitted only after a
\* block-header call has succeeded in that run, and when it is not, no
\* block-header call is made at all.
C4_OrderOnSandbox ==
    \A p \in BootstrapRuns :
        /\ Precedes(log[p], "originate", "inspector", "contract")
        /\ Precedes(log[p], "contract", "ok", "config.set")
        /\ OnSandbox(p) => Precedes(log[p], "getBlockHeader", "ok", "originate")
        /\ ~OnSandbox(p) => ~Has(log[p], "getBlockHeader")

\* C4 as stated: whatever the active network, the origination is submitted
\* only after a block-header call has succeeded, and the address is persisted
\* only after the origination has been confirmed.
C4_OrderOnEveryNetwork ==
    \A p \in BootstrapRuns :
        /\ Precedes(log[p], "getBlockHeader", "ok", "originate")
        /\ Precedes(log[p], "originate", "inspector", "contract")
        /\ Precedes(log[p], "contract", "ok", "config.set")

\* A bootstrap() run on sandbox has probed, originated and persisted.
C4_Witness ==
    /\ cmd[Main] = "bootstrap"
    /\ OnSandbox(Main)
    /\ HasEv(log[Main], "getBlockHeader", "ok")
    /\ Has(log[Main], "config.set")
    /\ outcome[Main].status = "resolved"

\* C6. With the sandbox network active and the start script successful: while
\* at most 7 block-header calls have failed, bootstrap() has not failed as
\* unreachable, and when the 8th call succeeds it goes on to the origination
\* of the inspector; after 9 consecutive failures bootstrap() is rejected
\* with the error of the call and has submitted no origination.
C6_ProbeBudget ==
    \A p \in BootstrapRuns :
        OnSandbox(p) =>
            /\ failures[p] <= 7 => ~NetworkUnreachable(p)
            /\ (failures[p] = 7 /\ HasEv(log[p], "getBlockHeader", "ok"))
               => /\ HasEv(log[p], "console", "originating balance inspector contract...")
                  /\ pc[p] \in {"loadFile", "originate", "confirm", "done"}
            /\ failures[p] = 9
               => /\ pc[p] = "done"
                  /\ NetworkUnreachable(p)
                  /\ ~Has(log[p], "originate")

\* The call failed 7 times, succeeded the 8th, and the origination was
\* submitted.
C6_Witness ==
    /\ cmd[Main] = "bootstrap"
    /\ OnSandbox(Main)
    /\ failures[Main] = 7
    /\ Count(log[Main], "getBlockHeader") = 8
    /\ Has(log[Main], "originate")


\* The store held no inspector address (or no string) for the active network
\* when the operation began.
NoInspectorAtStart(p) ==
    LET v == InspectorOf(cfgAtStart[p]) IN
    v.type # "string" \/ v.str = <<>>

\* C7. showBalances called when no inspector address (or a value that is not
\* a string) is stored for the active network ends rejected, and sends no
\* query to any contract.
C7_MissingInspectorRejected ==
    \A p \in Procs :
        (cmd[p] = "showBalances" /\ pc[p] = "done" /\ NoInspectorAtStart(p))
        => /\ outcome[p].status = "rejected"
           /\ ~Has(log[p], "contract.at")
           /\ ~Has(log[p], "query.send")

\* The origination of a run was rejected by the network or not confirmed.
OriginationFailed(p) ==
    \/ HasEv(log[p], "originate_answer", "rejected")
    \/ HasEv(log[p], "contract", "fail")

OriginationCauses ==
    {[cause |-> "submission_rejected"], [cause |-> "confirmation_failed"]}

\* C9 as amended. originateContract on a submission that the network rejects,
\* or whose confirmation fails, has submitted the origination exactly once
\* and ends rejected with the error it caught, unchanged: the name given
\* ('inspector' or 'nft') is only in the line it logs, not in the error.
C9_RejectedWithCauseOnly ==
    \A p \in Procs :
        (cmd[p] \in Originating /\ OriginationFailed(p))
        => /\ Count(log[p], "originate") = 1
           /\ pc[p] = "done"
           /\ outcome[p].status = "rejected"
           /\ outcome[p].error \in OriginationCauses
           /\ HasEv(log[p], "console_origination_error", OriginationName(p))

\* C9 as stated: the error the outcome is rejected with carries the name.
C9_RejectedWithLabel ==
    \A p \in Procs :
        (cmd[p] \in Originating /\ OriginationFailed(p))
        => /\ Count(log[p], "originate") = 1
           /\ outcome[p].status = "rejected"
           /\ "label" \in DOMAIN outcome[p].error
           /\ outcome[p].error.label = OriginationName(p)

\* The origination of an NFT contract was submitted and not confirmed.
C9_Witness ==
    /\ cmd[Main] = "mintNfts"
    /\ HasEv(log[Main], "originate", "nft")
    /\ HasEv(log[Main], "contract", "fail")
    /\ outcome[Main].status = "rejected"

\* C10. When the active network is sandbox and the start script fails,
\* bootstrap() ends rejected without building an execution handle, without a
\* block-header call, without submitting an origination and without writing
\* to the store.
C10_SandboxStartFailsFast ==
    \A p \in BootstrapRuns :
        HasEv(log[p], "exec_done", "err")
        => /\ pc[p] = "done"
           /\ outcome[p].status = "rejected"
           /\ ~Has(log[p], "createToolkit")
           /\ ~Has(log[p], "getBlockHeader")
           /\ ~Has(log[p], "originate")
           /\ ~Has(log[p], "config.set")
           /\ config = cfgAtStart[p]

\* The start script of a bootstrap() run on sandbox has failed.
C10_Witness ==
    /\ cmd[Main] = "bootstrap"
    /\ OnSandbox(Main)
    /\ HasEv(log[Main], "exec_done", "err")

----------------------------------------------------------------------------
(* Properties of operator lists (checked under SpecOperators). *)

\* A descriptor of the form 'operator, token_id' with a numeric token id.
WellFormedOperator(o) ==
    LET parts == Split(o, ",") IN
    Len(parts) = 2 /\ ~BigNumber(parts[2]).isNaN

ResolvableOperator(o, cfg) == resolveAlias2Address(Split(o, ",")[1], cfg).ok

\* What C8 states of one call of resolveOperators.
AllOrNothing(operators, r, cfg) ==
    /\ (\E i \in 1..Len(operators) :
            ~WellFormedOperator(operators[i]) \/ ~ResolvableOperator(operators[i], cfg))
       => ~r.ok
    /\ r.ok => Len(r.value) = Len(operators)

\* C8. resolveOperators fails as a whole if a descriptor of the list is
\* malformed or names an operator that cannot be resolved, and a list it
\* returns holds one OperatorParam for each descriptor.
C8_AllOrNothing ==
    \A p \in Procs :
        cmd[p] = "updateOperators"
        => /\ result[p].add # NotCalled
              => AllOrNothing(args[p].addOperators, result[p].add, cfgAtStart[p])
           /\ result[p].remove # NotCalled
              => AllOrNothing(args[p].removeOperators, result[p].remove, cfgAtStart[p])

----------------------------------------------------------------------------
(* Properties of the client's operations (checked under SpecClient). *)

\* The operations that build an execution handle.
HandleBuilding ==
    {"mintNfts", "transfer", "updateOperators", "showBalances", "showMetadata",
     "bootstrap"}

\* The requests made to the node: RPC requests, originations, contract calls.
NetworkCalls ==
    {"getBlockHeader", "originate", "contract.at", "query.send", "confirmation",
     "storage", "fa2.transfer", "update_operators"}

\* The store the run of p started from has no provider URL for its network.
NoProviderUrl(p) ==
    Falsy(cfgAtStart[p].providerUrl[activeNetworkKey(cfgAtStart[p])])

\* The run of p fails before the statement that builds its handle: mintNfts
\* on an empty token list, transfer on a batch or contract that does not
\* resolve, bootstrap when the start script fails.
EndsBeforeHandle(p) ==
    \/ cmd[p] = "mintNfts" /\ args[p].tokens = <<>>
    \/ /\ cmd[p] = "transfer"
       /\ \/ ~resolveTxAddresses(args[p].batch, cfgAtStart[p]).ok
          \/ ~resolveAlias2Address(args[p].nft, cfgAtStart[p]).ok
    \/ cmd[p] = "bootstrap" /\ HasEv(log[p], "exec_done", "err")

\* C11 as amended. With no provider URL configured for the active network,
\* an operation that builds a handle never gets one and never retries: it
\* attempts handle creation at most once, makes no request to the node, and
\* ends rejected; it has attempted handle creation exactly once unless it
\* failed before reaching that statement.
C11_NoHandleNoRetry ==
    \A p \in Procs :
        (cmd[p] \in HandleBuilding /\ NoProviderUrl(p))
        => /\ Count(log[p], "createToolkit") <= 1
           /\ ~HasEv(log[p], "createToolkit", "ok")
           /\ \A name \in NetworkCalls : ~Has(log[p], name)
           /\ Has(log[p], "createToolkit") => pc[p] = "done"
           /\ pc[p] = "done"
              => /\ outcome[p].status = "rejected"
                 /\ Count(log[p], "createToolkit") =
                        (IF EndsBeforeHandle(p) THEN 0 ELSE 1)

\* C11 as stated: every such operation ends having attempted handle creation
\* exactly once.
C11_HandleAttemptedExactlyOnce ==
    \A p \in Procs :
        (cmd[p] \in HandleBuilding /\ NoProviderUrl(p) /\ pc[p] = "done")
        => /\ outcome[p].status = "rejected"
           /\ Count(log[p], "createToolkit") = 1
           /\ \A name \in NetworkCalls : ~Has(log[p], name)

\* A transfer whose batch and contract resolve fails on the missing URL.
C11_Witness ==
    /\ cmd[Main] = "transfer"
    /\ NoProviderUrl(Main)
    /\ args[Main].batch # <<>>
    /\ Count(log[Main], "createToolkit") = 1
    /\ outcome[Main] = Rejected([cause |-> "provider_url_not_configured"])

\* C12. The store is written only by bootstrap: a step that changes any key
\* of the store is the end of a confirmed origination in a bootstrap run, so
\* no step of mintNfts, transfer, updateOperators, showBalances, showMetadata
\* or kill, successful or failed, changes the store.
C12_OnlyBootstrapWrites ==
    [][config' # config
       => \E p \in Procs :
            /\ cmd[p] = "bootstrap"
            /\ pc[p] = "confirm"
            /\ outcome'[p].status = "resolved"]_vars

\* After a bootstrap stored the first contract's address, mintNfts originated
\* a second contract and the store is as mintNfts found it.
C12_Witness ==
    /\ cmd[Main] = "mintNfts"
    /\ pc[Main] = "done"
    /\ outcome[Main].status = "resolved"
    /\ HasEv(log[Main], "contract", "ok")
    /\ nContracts = 2
    /\ InspectorOf(config) = StringValue(ContractAddress(1))
    /\ config = cfgAtStart[Main]

----------------------------------------------------------------------------
(* Properties of the storage encoder (checked under Spec, on the storage
   mintNfts builds for its origination). *)

\* The invocations holding the storage createNftStorage built for them.
Encoded == {p \in Procs : cmd[p] = "mintNfts" /\ "storage" \in DOMAIN result[p]}

TokenIds(tokens) == {tokens[i].token_id : i \in 1..Len(tokens)}

DistinctIds(tokens) ==
    \A i, j \in 1..Len(tokens) : tokens[i].token_id = tokens[j].token_id => i = j

\* The address of the owner mintNfts passes to the encoder.
OwnerAddress(p) == createToolkit(args[p].owner, cfgAtStart[p]).value.signer

\* C13. createNftStorage over tokens with pairwise distinct token_ids and an
\* owner: the keys of the ledger and the keys of token_metadata are the input
\* token_ids, the ledger maps each of them to the owner, token_metadata maps
\* each id to the input entry with that id, unchanged, and operators is empty.
C13_StorageOfDistinctIds ==
    \A p \in Encoded :
        LET tokens == args[p].tokens
            storage == result[p].storage
        IN  DistinctIds(tokens)
            => /\ DOMAIN storage.ledger = TokenIds(tokens)
               /\ DOMAIN storage.token_metadata = TokenIds(tokens)
               /\ \A id \in TokenIds(tokens) : storage.ledger[id] = OwnerAddress(p)
               /\ \A i \in 1..Len(tokens) :
                    storage.token_metadata[tokens[i].token_id] = tokens[i]
               /\ storage.operators = EmptyMap

\* The storage for two tokens with different ids has been built.
C13_Witness ==
    /\ Main \in Encoded
    /\ Len(args[Main].tokens) = 2
    /\ DistinctIds(args[Main].tokens)
    /\ Cardinality(DOMAIN result[Main].storage.ledger) = 2

\* The last entry of the list with the given id.
LastWithId(tokens, id) ==
    tokens[CHOOSE i \in 1..Len(tokens) :
              /\ tokens[i].token_id = id
              /\ \A j \in (i + 1)..Len(tokens) : tokens[j].token_id # id]

\* C14. createNftStorage does not reject a list in which a token_id occurs
\* several times, and the last entry wins: the storage has one ledger entry
\* and one token_metadata entry for each id of the list, and the metadata
\* entry of an id is the last entry of the list with that id.
C14_LastWriteWins ==
    \A p \in Encoded :
        LET tokens == args[p].tokens
            storage == result[p].storage
        IN  /\ DOMAIN storage.ledger = TokenIds(tokens)
            /\ DOMAIN storage.token_metadata = TokenIds(tokens)
            /\ \A id \in TokenIds(tokens) :
                 /\ storage.ledger[id] = OwnerAddress(p)
                 /\ storage.token_metadata[id] = LastWithId(tokens, id)

\* The storage for a list of three tokens, the first and the last with the
\* same id, has been built, and its origination submitted.
C14_Witness ==
    /\ Main \in Encoded
    /\ Len(args[Main].tokens) = 3
    /\ ~DistinctIds(args[Main].tokens)
    /\ Cardinality(DOMAIN result[Main].storage.token_metadata) = 2
    /\ result[Main].storage.token_metadata[Token1.token_id] = Token1Again
    /\ Has(log[Main], "originate")

----------------------------------------------------------------------------
(* Properties of the sandbox control and of the metadata query (checked
   under SpecClient). *)

RunsScript(p, script) == HasEv(log[p], "exec", script)

\* C15. The start and stop scripts are run only for the sandbox network:
\* kill() runs the stop script, and bootstrap() the start script, exactly when
\* activeNetwork is 'sandbox'; on any other network kill() has completed
\* successfully, having run no script and left the store as it was, and
\* bootstrap() runs no script.
C15_SandboxOnlyScripts ==
    \A p \in Procs :
        /\ cmd[p] = "kill"
           => /\ RunsScript(p, "kill-sandbox.sh") <=> OnSandbox(p)
              /\ ~RunsScript(p, "start-sandbox.sh")
              /\ ~OnSandbox(p)
                 => /\ pc[p] = "done"
                    /\ outcome[p] = Resolved
                    /\ ~Has(log[p], "exec")
                    /\ config = cfgAtStart[p]
        /\ cmd[p] = "bootstrap"
           => /\ RunsScript(p, "start-sandbox.sh") <=> OnSandbox(p)
              /\ ~RunsScript(p, "kill-sandbox.sh")
        /\ Has(log[p], "exec") => cmd[p] \in {"kill", "bootstrap"} /\ OnSandbox(p)

\* kill() has ended on the test network, after a contract was originated
\* there.
C15_Witness ==
    /\ cmd[Main] = "kill"
    /\ ~OnSandbox(Main)
    /\ pc[Main] = "done"
    /\ outcome[Main] = Resolved
    /\ nContracts > 0

IsReport(e) ==
    e.ev = "printTokenMetadata" \/ e = Ev("console", "token is missing")

\* What showMetadata printed for the tokens, in the order printed.
ReportsIn(lg) == SelectSeq(lg, IsReport)

\* The run of p read a storage holding a token_metadata map.
MetadataRead(p) ==
    cmd[p] = "showMetadata" /\ HasEv(log[p], "storage", "ok")

\* C16. showMetadata on a contract whose token_metadata lacks some of the
\* ids asked for: the call completes successfully with one report for each
\* id asked for, in order: the metadata stored under the id when there is
\* one, and otherwise a line saying that this token is missing.
C16_MissingReportedPerToken ==
    \A p \in Procs :
        MetadataRead(p)
        => LET tokens == args[p].tokens
               meta == result[p].meta
               reports == ReportsIn(log[p])
           IN  /\ pc[p] = "done"
               /\ outcome[p] = Resolved
               /\ Len(reports) = Len(tokens)
               /\ \A i \in 1..Len(tokens) :
                    LET tid == BigNumber(tokens[i]) IN
                    IF tid \in DOMAIN meta
                    THEN /\ reports[i].ev = "printTokenMetadata"
                         /\ result[p].tokensMeta[i].meta.value = meta[tid]
                    ELSE reports[i] = Ev("console", "token is missing")

\* Three tokens were asked for; one is in the contract and two are not.
C16_Witness ==
    /\ MetadataRead(Main)
    /\ Len(args[Main].tokens) = 3
    /\ Cardinality({i \in 1..3 :
           BigNumber(args[Main].tokens[i]) \in DOMAIN result[Main].meta}) = 1
    /\ Count(log[Main], "printTokenMetadata") = 1
    /\ outcome[Main] = Resolved

----------------------------------------------------------------------------
(* More properties of the batch compiler (checked under SpecCompile). *)

RECURSIVE SumLen(_)
SumLen(b) == IF b = <<>> THEN 0 ELSE Len(Head(b).txs) + SumLen(Tail(b))

\* The places of the batch holding the destination of a descriptor under an
\* entry of its sender.
PlacesOf(description) ==
    {<<i, j>> \in (1..Len(batch)) \X (1..MaxDescriptors) :
        /\ j <= Len(batch[i].txs)
        /\ batch[i].from_ = Sender(description)
        /\ batch[i].txs[j].to_ = Destination(description).to_
        /\ batch[i].txs[j].token_id = Destination(description).token_id}

\* The descriptors compiled that name the same sender, receiver and token.
SameAs(description) ==
    {k \in 1..Len(compiled) : TransferOf(compiled[k]) = TransferOf(description)}

\* C17. Every descriptor compiled contributes exactly one destination, with
\* amount 1: after n descriptors compiled from an empty batch the entries of
\* the batch hold n destinations in all, the (to_, token_id) of a descriptor
\* is held under an entry of the descriptor's sender once for each time it
\* was compiled (exactly once when it was compiled once), and every amount
\* is 1.
C17_OneDestinationEach ==
    /\ SumLen(batch) = Len(compiled)
    /\ \A k \in 1..Len(compiled) :
         Cardinality(PlacesOf(compiled[k])) = Cardinality(SameAs(compiled[k]))
    /\ \A i \in 1..Len(batch) : \A j \in 1..Len(batch[i].txs) :
         batch[i].txs[j].amount = BigNumber(<<"1">>)

\* Three different descriptors were compiled, two of them of one sender.
C17_Witness ==
    /\ Len(compiled) = 3
    /\ \A k \in 1..3 : Cardinality(SameAs(compiled[k])) = 1
    /\ Len(batch) = 2
    /\ SumLen(batch) = 3

----------------------------------------------------------------------------
(* Properties of alias resolution in transfer and updateOperators (checked
   under SpecClient). *)

Unresolved(tok, cfg) == ~resolveAlias2Address(tok, cfg).ok

\* A sender, a destination or the contract of the transfer does not resolve.
UnresolvedInTransfer(p) ==
    LET b == args[p].batch
        cfg == cfgAtStart[p]
    IN  \/ \E i \in 1..Len(b) :
             \/ Unresolved(b[i].from_, cfg)
             \/ \E j \in 1..Len(b[i].txs) : Unresolved(b[i].txs[j].to_, cfg)
        \/ Unresolved(args[p].nft, cfg)

\* An operator to add or to remove, or the contract, does not resolve.
UnresolvedInUpdate(p) ==
    LET cfg == cfgAtStart[p] IN
    \/ \E i \in 1..Len(args[p].addOperators) :
         ~ResolvableOperator(args[p].addOperators[i], cfg)
    \/ \E i \in 1..Len(args[p].removeOperators) :
         ~ResolvableOperator(args[p].removeOperators[i], cfg)
    \/ Unresolved(args[p].nft, cfg)

\* The resolved batch has the entries and the destinations of the batch.
SameShape(txs, b) ==
    /\ Len(txs) = Len(b)
    /\ \A i \in 1..Len(b) : Len(txs[i].txs) = Len(b[i].txs)

\* C18. In transfer and updateOperators the resolutions are joined as a
\* whole: when a sender, a destination, the NFT contract or an operator to
\* add or to remove does not resolve, the operation ends rejected and the
\* transfer / update_operators call is never submitted; a call that is
\* submitted carries every entry and destination (every operator) given.
C18_ResolutionAllOrNothing ==
    \A p \in Procs :
        /\ (cmd[p] = "transfer" /\ UnresolvedInTransfer(p))
           => /\ pc[p] = "done"
              /\ outcome[p].status = "rejected"
              /\ ~Has(log[p], "fa2.transfer")
        /\ (cmd[p] = "transfer" /\ pc[p] = "fa2.transfer")
           => SameShape(result[p].txs, args[p].batch)
        /\ (cmd[p] = "updateOperators" /\ UnresolvedInUpdate(p))
           => /\ pc[p] = "done"
              /\ outcome[p].status = "rejected"
              /\ ~Has(log[p], "update_operators")
        /\ (cmd[p] = "updateOperators" /\ pc[p] = "fa2.updateOperators")
           => /\ Len(result[p].add.value) = Len(args[p].addOperators)
              /\ Len(result[p].remove.value) = Len(args[p].removeOperators)

\* A transfer of one sender to two destinations, the first of which resolves
\* and the second does not, on a store with a provider URL.
C18_Witness ==
    /\ cmd[Main] = "transfer"
    /\ ~NoProviderUrl(Main)
    /\ Len(args[Main].batch) = 1
    /\ Len(args[Main].batch[1].txs) = 2
    /\ ~Unresolved(args[Main].batch[1].from_, cfgAtStart[Main])
    /\ ~Unresolved(args[Main].batch[1].txs[1].to_, cfgAtStart[Main])
    /\ Unresolved(args[Main].batch[1].txs[2].to_, cfgAtStart[Main])
    /\ outcome[Main] = Rejected([cause |-> "unknown_alias"])

----------------------------------------------------------------------------
(* Termination of bootstrap (checked under SpecLive, where every external
   call returns). *)

BootstrapSettled(p) ==
    /\ cmd[p] = "bootstrap"
    /\ pc[p] = "done"
    /\ outcome[p].status \in {"resolved", "rejected"}

\* The readiness probe of the run has used the first attempt and every retry.
BudgetExhausted(p) == failures[p] > Retries

\* C19. Every bootstrap() run terminates when its external calls return: a
\* run that is suspended eventually ends resolved or rejected; and once the
\* block-header call has failed on the first attempt and on every retry, the
\* run has ended rejected, with no block-header call but the failed ones.
C19_BootstrapTerminates ==
    /\ \A p \in {Main} :
         (cmd[p] = "bootstrap" /\ Running(p)) ~> BootstrapSettled(p)
    /\ [](\A p \in BootstrapRuns :
            BudgetExhausted(p)
            => /\ BootstrapSettled(p)
               /\ outcome[p].status = "rejected"
               /\ Count(log[p], "getBlockHeader") = failures[p])

\* A run whose last block-header call used up the retries has ended with the
\* line bootstrap prints when it gives up.
C19_Witness ==
    /\ BootstrapSettled(Main)
    /\ BudgetExhausted(Main)
    /\ log[Main][Len(log[Main])] = Ev("console", "failed to start.")
    /\ log[Main][Len(log[Main]) - 1] = Ev("getBlockHeader", "fail")

----------------------------------------------------------------------------
(* The stored inspector address (checked under SpecClient). *)

\* The addresses of the contracts whose origination was confirmed.
ConfirmedAddresses == {ContractAddress(n) : n \in 1..nContracts}

\* The run of p originated the inspector and its confirmation arrived.
InspectorConfirmed(p) ==
    /\ HasEv(log[p], "originate", "inspector")
    /\ HasEv(log[p], "contract", "ok")
    /\ "address" \in DOMAIN result[p]
    /\ result[p].address \in ConfirmedAddresses

\* C20. The stored inspector address comes from a confirmed origination
\* only: a bootstrap() run leaves the store as it found it until the
\* origination of the inspector is confirmed, then writes the address
\* returned under the inspector key of the active network and nothing else;
\* a run that fails (start script, handle, probe, file or origination) leaves
\* the store unchanged; and every other operation leaves it unchanged too.
C20_InspectorFromConfirmedOrigination ==
    \A p \in {Main} :
        /\ cmd[p] = "bootstrap"
           => \/ config = cfgAtStart[p] /\ ~Has(log[p], "config.set")
              \/ /\ InspectorConfirmed(p)
                 /\ outcome[p] = Resolved
                 /\ config = [cfgAtStart[p] EXCEPT
                                !.inspector[cfgAtStart[p].activeNetwork] =
                                    StringValue(result[p].address)]
        /\ (cmd[p] = "bootstrap" /\ outcome[p].status = "rejected")
           => config = cfgAtStart[p]
        /\ cmd[p] # "bootstrap" => config = cfgAtStart[p]

\* A bootstrap() whose origination was submitted and not confirmed, on a
\* store holding the address an earlier bootstrap() stored.
C20_Witness ==
    /\ cmd[Main] = "bootstrap"
    /\ HasEv(log[Main], "contract", "fail")
    /\ outcome[Main].status = "rejected"
    /\ InspectorOf(config) = StringValue(ContractAddress(1))
    /\ config = cfgAtStart[Main]

----------------------------------------------------------------------------
(* Two bootstrap() invocations on one store, not serialized by the caller.
   Between the answer of originationOp.contract() and config.set the other
   invocation may run, so the two are separate steps here. *)

\* The invocations that have written the inspector address.
Persisted == {p \in Procs : "order" \in DOMAIN result[p]}

\* originationOp.contract() of the inspector ends; on success the address
\* travels back to originateBalanceInspector.
InspectorConfirm(p) ==
    /\ pc[p] = "confirm"
    /\ cmd[p] = "bootstrap"
    /\ \E confirmed \in BOOLEAN :
         LET lg == Append(log[p], Ev("contract", IF confirmed THEN "ok" ELSE "fail")) IN
         IF ~confirmed
         THEN /\ LET r == OriginateCatch(p, lg, [cause |-> "confirmation_failed"])
                 IN  Step(p, r.pc, r.log, r.outcome)
              /\ UNCHANGED <<result, nContracts>>
         ELSE /\ nContracts' = nContracts + 1
              /\ result' = [result EXCEPT ![p] =
                                [address |-> ContractAddress(nContracts + 1)]]
              /\ Step(p, "config.set", lg, Pending)
    /\ UNCHANGED <<config, batch, compiled, cmd, args, failures, cfgAtStart>>

\* config.set(inspectorKey(config), inspectorAddress), on the store as it is
\* now; the write is the next one after those already made.
InspectorPersist(p) ==
    /\ pc[p] = "config.set"
    /\ config' = SetInspector(config, result[p].address)
    /\ result' = [result EXCEPT ![p] =
                      [address |-> result[p].address,
                       order |-> Cardinality(Persisted) + 1]]
    /\ Step(p, "done",
            Append(Append(log[p], Ev("config.set", "inspector")),
                   Ev("console", "originated balance inspector")),
            Resolved)
    /\ UNCHANGED <<batch, compiled, cmd, args, failures, cfgAtStart, nContracts>>

\* Each invocation is one bootstrap(), started at any time.
NextConcurrent ==
    \E p \in Procs :
        \/ Idle(p) /\ Bootstrap(p)
        \/ SandboxExecDone(p)
        \/ Probe(p)
        \/ LoadFile(p)
        \/ OriginateSubmit(p)
        \/ InspectorConfirm(p)
        \/ InspectorPersist(p)

SpecConcurrent == InitClient /\ [][NextConcurrent]_vars

\* The invocation that wrote the inspector address last.
LastPersisted ==
    CHOOSE p \in Persisted : \A q \in Persisted : result[q].order <= result[p].order

\* C21. Two bootstrap() invocations interleaved in any way on one store:
\* each one that succeeds has originated a contract of its own (its
\* origination was confirmed, and no other invocation was given its address)
\* and has written that address; the inspector key holds the address written
\* last, in particular once both have finished, and that is the address of a
\* contract that was originated; when neither has written, the key is as it
\* was.
C21_LastPersistedWins ==
    /\ \A p \in Procs :
         outcome[p] = Resolved
         => /\ p \in Persisted
            /\ HasEv(log[p], "originate", "inspector")
            /\ HasEv(log[p], "contract", "ok")
            /\ result[p].address \in ConfirmedAddresses
            /\ \A q \in Procs \ {p} :
                 "address" \in DOMAIN result[q] => result[q].address # result[p].address
    /\ Persisted # {}
       => /\ InspectorOf(config) = StringValue(result[LastPersisted].address)
          /\ result[LastPersisted].address \in ConfirmedAddresses
    /\ Persisted = {} => \A p \in Procs : config = cfgAtStart[p]
    /\ (\A p \in Procs : pc[p] = "done")
       => \/ \E p \in Procs :
               /\ outcome[p] = Resolved
               /\ InspectorOf(config) = StringValue(result[p].address)
          \/ \A p \in Procs :
               outcome[p].status = "rejected" /\ config = cfgAtStart[p]

\* Both invocations succeeded; the one whose contract was confirmed first
\* wrote its address last, and the key holds that address.
C21_Witness ==
    /\ \A p \in Procs : pc[p] = "done" /\ outcome[p] = Resolved
    /\ nContracts = 2
    /\ result[LastPersisted].address = ContractAddress(1)
    /\ InspectorOf(config) = StringValue(ContractAddress(1))

----------------------------------------------------------------------------
(* The batch a transfer submits (checked under SpecClient). *)

\* The run of p resolved its batch and reached fa2.transfer with it.
TransferSubmitted(p) ==
    /\ cmd[p] = "transfer"
    /\ pc[p] = "fa2.transfer" \/ Has(log[p], "fa2.transfer")

AddressOf(tok, cfg) == resolveAlias2Address(tok, cfg).value

\* C22. The batch transfer() gives to fa2.transfer has the entries of the
\* batch it was called with, in the same order, each with its destinations
\* in the same order; every token_id and amount is the one given, and from_
\* and to_ are the addresses they resolve to; an entry and a destination
\* have no other field.
C22_ResolutionKeepsStructure ==
    \A p \in Procs :
        TransferSubmitted(p)
        => LET b == args[p].batch
               txs == result[p].txs
               cfg == cfgAtStart[p]
           IN  /\ Len(txs) = Len(b)
               /\ \A i \in 1..Len(b) :
                    /\ DOMAIN txs[i] = {"from_", "txs"}
                    /\ txs[i].from_ = AddressOf(b[i].from_, cfg)
                    /\ Len(txs[i].txs) = Len(b[i].txs)
                    /\ \A j \in 1..Len(b[i].txs) :
                         /\ DOMAIN txs[i].txs[j] = {"to_", "amount", "token_id"}
                         /\ txs[i].txs[j].to_ = AddressOf(b[i].txs[j].to_, cfg)
                         /\ txs[i].txs[j].token_id = b[i].txs[j].token_id
                         /\ txs[i].txs[j].amount = b[i].txs[j].amount

\* A transfer of an alias to two receivers, with different tokens, was
\* submitted and went through.
C22_Witness ==
    /\ TransferSubmitted(Main)
    /\ outcome[Main] = Resolved
    /\ Len(args[Main].batch) = 1
    /\ Len(args[Main].batch[1].txs) = 2
    /\ result[Main].txs[1].from_ # args[Main].batch[1].from_
    /\ result[Main].txs[1].txs[1].to_ # result[Main].txs[1].txs[2].to_
    /\ result[Main].txs[1].txs[1].token_id # result[Main].txs[1].txs[2].token_id

----------------------------------------------------------------------------
(* mintNfts on an empty token list (checked under Spec). *)

NoTokensError == [cause |-> "there are no token definitions provided"]

\* C23. mintNfts called with an empty token list is rejected before anything
\* else happens: its only step is the rejection, with no read of the store,
\* no signer resolved, no handle built, no file loaded and no origination
\* submitted, and the store is as it was; and an NFT origination is
\* submitted only by a mintNfts whose token list is not empty.
C23_EmptyListRejectedFirst ==
    \A p \in Procs :
        /\ (cmd[p] = "mintNfts" /\ args[p].tokens = <<>>)
           => /\ pc[p] = "done"
              /\ outcome[p] = Rejected(NoTokensError)
              /\ log[p] = <<Ev("mintNfts", "no tokens")>>
              /\ \A name \in {"loadUserConfig", "createToolkit", "loadFile",
                              "originate"} : ~Has(log[p], name)
              /\ config = cfgAtStart[p]
        /\ HasEv(log[p], "originate", "nft")
           => /\ cmd[p] = "mintNfts"
              /\ Len(args[p].tokens) > 0
              /\ Precedes(log[p], "loadUserConfig", "mintNfts", "originate")

\* mintNfts was given no tokens on a store where the owner has a signer and
\* the network a provider URL.
C23_Witness ==
    /\ cmd[Main] = "mintNfts"
    /\ args[Main].tokens = <<>>
    /\ createToolkit(args[Main].owner, cfgAtStart[Main]).ok
    /\ outcome[Main] = Rejected(NoTokensError)

====
